---- MODULE Spec2Model ----
(***************************************************************************)
(* PhotoApp (src/main.py): a menu-driven client over an S3 bucket (blobs)  *)
(* and a MySQL database (tables users and assets).  The model follows the  *)
(* script one blocking call at a time: pc is the call the process is about *)
(* to make.  The gateways datatier and awsutil are modelled at their       *)
(* interface: each call ends "ok", "fail" (the falsy / non-positive value  *)
(* the handlers test for) or "raise" (an exception, which main.py never    *)
(* catches).                                                               *)
(***************************************************************************)
EXTENDS Integers, Sequences, FiniteSets, TLC

VARIABLES
  users,         \* table users: set of rows
  assets,        \* table assets: set of rows
  bucket,        \* S3 bucket: key -> content
  files,         \* local file system: filename -> content
  lastInsertId,  \* LAST_INSERT_ID() of the open database connection
  uuidCount,     \* number of uuid.uuid4() values drawn so far
  pc,            \* position of the process
  cmd,           \* the command number read by prompt()
  local,         \* local variables of the running handler
  out,           \* what the last handler printed
  calls,         \* gateway calls made by the last handler, in order
  prev,          \* the user the command before the last one recorded, if any
  receipts       \* asset id reported by upload -> what was uploaded

vars == <<users, assets, bucket, files, lastInsertId, uuidCount, pc, cmd,
          local, out, calls, prev, receipts>>

---------------------------------------------------------------------------
(* Bounds of the model *)

MaxUsers == 2
MaxAssets == 2
MaxUuid == 3

---------------------------------------------------------------------------
(* Inputs *)

\* what the user may type at the command prompt (numeric)
Commands == -1 .. 8

\* local file names, as <<stem, suffix>>
FileNames == { <<"a", ".jpg">>, <<"b", ".txt">> }

\* what a local file may hold: "txt" is not a decodable image, and a .jpg
\* file may be an image or not
Contents(fname) == IF fname[2] = ".jpg" THEN { "img", "txt" } ELSE { "txt" }

\* what the user may type at an identifier prompt
IdInputs == { "1", "2", "1x", "zz" }

Emails == { "a@b.com", "c@d.com" }
LastNames == { "Smith" }
FirstNames == { "Jane" }

\* how a gateway call can end
Results == { "ok", "fail", "raise" }

---------------------------------------------------------------------------
(* Values *)

EmptyMap == [x \in {} |-> x]

Put(m, k, v) == [x \in DOMAIN m \cup {k} |-> IF x = k THEN v ELSE m[x]]

Remove(m, k) == [x \in DOMAIN m \ {k} |-> m[x]]

\* Python's empty tuple / None: the falsy value a gateway returns
Empty == << >>

NoLocals == [handler |-> "none"]

NoOutput == [kind |-> "none"]

\* str(uuid.uuid4()): the n-th value drawn differs from all drawn before
Uuid4(n) == ToString(n)

\* pathlib.Path(local_fname).suffix
Suffix(fname) == fname[2]

\* MySQL's conversion of a string parameter compared with / stored in an
\* integer column: the leading digits, 0 when there are none
MySQLToNumber(s) ==
  CASE s = "1" -> 1
    [] s = "2" -> 2
    [] s = "1x" -> 1
    [] OTHER -> 0

\* matplotlib.image.imread decodes the file or raises
IsImage(content) == content = "img"

---------------------------------------------------------------------------
(* Metadata store gateway (datatier) and the MySQL tables *)

UserIds(rows) == { r.userid : r \in rows }

AssetIds(rows) == { r.assetid : r \in rows }

MaxOf(S) == IF S = {} THEN 0 ELSE CHOOSE m \in S : \A x \in S : x <= m

\* AUTO_INCREMENT: greater than every identifier in the table
NextUserId(rows) == MaxOf(UserIds(rows)) + 1

NextAssetId(rows) == MaxOf(AssetIds(rows)) + 1

RECURSIVE OrderByDesc(_, _)
OrderByDesc(ids, rowOf) ==
  IF ids = {} THEN << >>
  ELSE LET m == MaxOf(ids)
       IN <<rowOf[m]>> \o OrderByDesc(ids \ {m}, rowOf)

\* variant of OrderByDesc: least first
RECURSIVE OrderByAsc(_, _)
OrderByAsc(ids, rowOf) ==
  IF ids = {} THEN << >>
  ELSE LET m == MaxOf(ids)
       IN OrderByAsc(ids \ {m}, rowOf) \o <<rowOf[m]>>

UserRow(u) == <<u.userid, u.email, u.lastname, u.firstname, u.bucketfolder>>

AssetRow(a) == <<a.assetid, a.userid, a.assetname, a.bucketkey>>

UserRowOf(rows) ==
  [i \in UserIds(rows) |-> UserRow(CHOOSE u \in rows : u.userid = i)]

AssetRowOf(rows) ==
  [i \in AssetIds(rows) |-> AssetRow(CHOOSE a \in rows : a.assetid = i)]

\* retrieve_one_row: the first row of the result, or the empty tuple
retrieve_one_row(result, res) ==
  IF res = "ok" /\ result # << >> THEN Head(result) ELSE Empty

\* retrieve_all_rows: all rows of the result, in the query's order
retrieve_all_rows(result, res) == IF res = "ok" THEN result ELSE Empty

\* perform_action: the number of rows affected, -1 when the action failed
perform_action(res) == IF res = "ok" THEN 1 ELSE 0 - 1

---------------------------------------------------------------------------
(* The queries of main.py, evaluated on the tables *)

\* variant: the users listed in ascending order
AscUsersQuery(rows) == OrderByAsc(UserIds(rows), UserRowOf(rows))

\* SELECT * FROM users ORDER BY userid DESC
ListUsersQuery(rows) == OrderByDesc(UserIds(rows), UserRowOf(rows))

\* SELECT * FROM assets ORDER BY assetid DESC
ListAssetsQuery(rows) == OrderByDesc(AssetIds(rows), AssetRowOf(rows))

\* SELECT COUNT(*) FROM users
CountUsersQuery(urows, arows, bkt) == << <<Cardinality(urows)>> >>

\* variant: the number of objects in the bucket taken for the asset count
BucketCountQuery(urows, arows, bkt) == << <<Cardinality(DOMAIN bkt)>> >>

\* SELECT COUNT(*) FROM assets
CountAssetsQuery(urows, arows, bkt) == << <<Cardinality(arows)>> >>

\* SELECT userid FROM users WHERE userid = %s
CheckUserQuery(rows, user_id) ==
  IF MySQLToNumber(user_id) \in UserIds(rows)
  THEN << <<MySQLToNumber(user_id)>> >> ELSE << >>

\* SELECT bucketkey, assetname FROM assets WHERE assetid = %s
FileInfoQuery(rows, asset_id) ==
  IF MySQLToNumber(asset_id) \in AssetIds(rows)
  THEN LET a == CHOOSE r \in rows : r.assetid = MySQLToNumber(asset_id)
       IN << <<a.bucketkey, a.assetname>> >>
  ELSE << >>

\* SELECT LAST_INSERT_ID();
LastInsertIdQuery(id) == << <<id>> >>

---------------------------------------------------------------------------
(* Decisions taken by main.py *)

\* variant: the loop goes on for the known handlers only
ExitsOnUnknown(c) == c \in 1 .. 7

\* while cmd != 0
LoopContinues(c) == c # 0

\* variant: a failed insert ends the script
ResumeUnlessInsertFailed(o) ==
  IF o.kind \in {"exception", "insert_failed"}
  THEN "TERMINATED" ELSE "AWAITING_COMMAND"

\* where the process is once a handler has ended: an exception is caught
\* nowhere and ends the script, a return reaches cmd = prompt()
AfterHandler(o) ==
  IF o.kind = "exception" THEN "TERMINATED" ELSE "AWAITING_COMMAND"

\* variant: no check of the local file
AnyFile(fs, fname) == TRUE

\* os.path.exists(local_fname)
FileExists(fs, fname) == fname \in DOMAIN fs

\* variant: no check of the user
AnyUser(row) == TRUE

\* the user lookup returned a row
UserFound(row) == row # Empty

\* variant: the result of upload_file is ignored
AlwaysProceeds(s3_key) == TRUE

\* upload_file returned a key
UploadSucceeded(s3_key) == s3_key # Empty

\* the asset lookup returned a row
AssetFound(file_info) == file_info # Empty

\* variant: the blob is saved under its key
SaveUnderKey(file_info) == <<file_info[1][1], file_info[1][2]>>

\* the name download_file is asked to save the blob under
DownloadTarget(file_info) == file_info[2]

\* awsutil.download_file returned the name of the saved file
Downloaded(downloaded_file) == downloaded_file # Empty

\* variant: a message of its own for a failed blob download
DownloadFailedReport == [kind |-> "download_failed"]

\* print("No such asset...") when the blob could not be downloaded
BlobMissingReport == [kind |-> "no_such_asset"]

\* print("No such asset...") when the lookup returned no row
RowMissingReport == [kind |-> "no_such_asset"]

\* perform_action reported at least one row: not (res <= 0)
Inserted(res) == ~(res <= 0)

---------------------------------------------------------------------------
(* Initial state: the script has started, both connections are open and   *)
(* prompt() waits for the first command.                                   *)

Init ==
  /\ users = {}
  /\ assets = {}
  /\ bucket = EmptyMap
  /\ files = Put(EmptyMap, <<"a", ".jpg">>, "img")
  /\ lastInsertId = 0
  /\ uuidCount = 0
  /\ pc = "AWAITING_COMMAND"
  /\ cmd = 0
  /\ local = NoLocals
  /\ out = NoOutput
  /\ calls = << >>
  /\ prev = NoOutput
  /\ receipts = EmptyMap

Stores == <<users, assets, bucket, files, lastInsertId, uuidCount, receipts>>

\* what the next command finds on the screen from the command before it
Remembered(o) == IF o.kind = "user_recorded" THEN o ELSE NoOutput

\* the handler ends having printed o
Finish(o) ==
  /\ pc' = AfterHandler(o)
  /\ out' = o
  /\ local' = NoLocals

Exception == [kind |-> "exception"]

---------------------------------------------------------------------------
(* Command loop *)

\* prompt(): cmd = int(input()) with numeric input
Prompt ==
  /\ pc = "AWAITING_COMMAND"
  /\ \E c \in Commands :
       \* the model's bounds: no new row or blob beyond them
       /\ c = 6 => (Cardinality(assets) < MaxAssets /\ uuidCount < MaxUuid)
       /\ c = 7 => (Cardinality(users) < MaxUsers /\ uuidCount < MaxUuid)
       /\ cmd' = c
  /\ pc' = "DISPATCH"
  /\ prev' = Remembered(out)
  /\ out' = NoOutput
  /\ calls' = << >>
  /\ UNCHANGED <<Stores, local>>

\* prompt(): int(input()) raises ValueError on input that is no number
PromptNotNumeric ==
  /\ pc = "AWAITING_COMMAND"
  /\ pc' = "TERMINATED"
  /\ out' = Exception
  /\ calls' = << >>
  /\ prev' = NoOutput
  /\ UNCHANGED <<Stores, cmd, local>>

\* the loop ends on command 0
Exit ==
  /\ pc = "DISPATCH"
  /\ ~LoopContinues(cmd)
  /\ pc' = "TERMINATED"
  /\ out' = [kind |-> "done"]
  /\ calls' = << >>
  /\ prev' = NoOutput
  /\ UNCHANGED <<Stores, cmd, local>>

\* the else branch of the dispatch
UnknownCommand ==
  /\ pc = "DISPATCH"
  /\ LoopContinues(cmd)
  /\ cmd \notin 1 .. 7
  /\ pc' = "AWAITING_COMMAND"
  /\ out' = [kind |-> "unknown_command"]
  /\ calls' = << >>
  /\ UNCHANGED <<Stores, cmd, local, prev>>

---------------------------------------------------------------------------
(* Command 1: stats *)

\* len(list(bucket.objects.all())): boto3 lists the bucket or raises
StatsBucket ==
  /\ pc = "DISPATCH"
  /\ LoopContinues(cmd)
  /\ cmd = 1
  /\ \E res \in {"ok", "raise"} :
       /\ calls' = << <<"s3.objects.all", res>> >>
       /\ IF res = "raise"
          THEN Finish(Exception)
          ELSE /\ pc' = "STATS_USERS"
               /\ out' = [kind |-> "stats",
                          s3_assets |-> Cardinality(DOMAIN bucket),
                          users_cnt |-> Empty, assets_cnt |-> Empty]
               /\ local' = [handler |-> "stats"]
  /\ UNCHANGED <<Stores, cmd, prev>>

StatsUsers ==
  /\ pc = "STATS_USERS"
  /\ \E res \in Results :
       /\ calls' = Append(calls, <<"db.retrieve_one_row", res>>)
       /\ IF res = "raise"
          THEN Finish(Exception)
          ELSE LET users_cnt ==
                     retrieve_one_row(CountUsersQuery(users, assets, bucket), res)
               IN /\ pc' = "STATS_ASSETS"
                  /\ out' = [out EXCEPT !.users_cnt = users_cnt]
                  /\ local' = local
  /\ UNCHANGED <<Stores, cmd, prev>>

StatsAssets ==
  /\ pc = "STATS_ASSETS"
  /\ \E res \in Results :
       /\ calls' = Append(calls, <<"db.retrieve_one_row", res>>)
       /\ IF res = "raise"
          THEN Finish(Exception)
          ELSE LET assets_cnt ==
                     retrieve_one_row(CountAssetsQuery(users, assets, bucket), res)
               IN Finish([out EXCEPT !.assets_cnt = assets_cnt])
  /\ UNCHANGED <<Stores, cmd, prev>>

---------------------------------------------------------------------------
(* Commands 2 and 3: users, assets *)

Users ==
  /\ pc = "DISPATCH"
  /\ LoopContinues(cmd)
  /\ cmd = 2
  /\ \E res \in Results :
       /\ calls' = << <<"db.retrieve_all_rows", res>> >>
       /\ IF res = "raise"
          THEN Finish(Exception)
          ELSE Finish([kind |-> "users",
                       rows |-> retrieve_all_rows(ListUsersQuery(users), res)])
  /\ UNCHANGED <<Stores, cmd, prev>>

Assets ==
  /\ pc = "DISPATCH"
  /\ LoopContinues(cmd)
  /\ cmd = 3
  /\ \E res \in Results :
       /\ calls' = << <<"db.retrieve_all_rows", res>> >>
       /\ IF res = "raise"
          THEN Finish(Exception)
          ELSE Finish([kind |-> "assets",
                       rows |-> retrieve_all_rows(ListAssetsQuery(assets), res)])
  /\ UNCHANGED <<Stores, cmd, prev>>

---------------------------------------------------------------------------
(* Commands 4 and 5: download, download and display *)

\* reads the asset id and looks the asset up
DownloadLookup ==
  /\ pc = "DISPATCH"
  /\ LoopContinues(cmd)
  /\ cmd \in {4, 5}
  /\ \E asset_id \in IdInputs, res \in Results :
       /\ calls' = << <<"db.retrieve_one_row", res>> >>
       /\ IF res = "raise"
          THEN Finish(Exception)
          ELSE LET file_info ==
                     retrieve_one_row(FileInfoQuery(assets, asset_id), res)
               IN IF AssetFound(file_info)
                  THEN /\ pc' = "DOWNLOAD_FILE"
                       /\ out' = NoOutput
                       /\ local' = [handler |-> "download",
                                    asset_id |-> asset_id,
                                    file_info |-> file_info]
                  ELSE Finish(RowMissingReport)
  /\ UNCHANGED <<Stores, cmd, prev>>

\* awsutil.download_file(bucket, key, name): saves the blob under name and
\* returns name, or returns nothing when the blob cannot be downloaded
DownloadFile ==
  /\ pc = "DOWNLOAD_FILE"
  /\ \E res \in Results :
       /\ res = "ok" => local.file_info[1] \in DOMAIN bucket
       /\ calls' = Append(calls, <<"s3.download_file", res>>)
       /\ IF res = "raise"
          THEN Finish(Exception) /\ files' = files
          ELSE LET key == local.file_info[1]
                   orginial_fname == local.file_info[2]
                   target == DownloadTarget(local.file_info)
                   downloaded_file == IF res = "ok" THEN target ELSE Empty
               IN /\ files' = IF res = "ok"
                              THEN Put(files, target, bucket[key]) ELSE files
                  /\ IF Downloaded(downloaded_file)
                     THEN IF cmd = 5
                          THEN /\ pc' = "DOWNLOAD_DISPLAY"
                               /\ out' = [kind |-> "downloaded",
                                          name |-> orginial_fname,
                                          displayed |-> FALSE]
                               /\ local' = [handler |-> "download",
                                            asset_id |-> local.asset_id,
                                            downloaded_file |-> downloaded_file]
                          ELSE Finish([kind |-> "downloaded",
                                       name |-> orginial_fname,
                                       displayed |-> FALSE])
                     ELSE Finish(BlobMissingReport)
  /\ UNCHANGED <<users, assets, bucket, lastInsertId, uuidCount, receipts, cmd, prev>>

\* img.imread(downloaded_file); plt.imshow(image); plt.show()
DownloadDisplay ==
  /\ pc = "DOWNLOAD_DISPLAY"
  /\ calls' = calls
  /\ IF local.downloaded_file \in DOMAIN files
        /\ IsImage(files[local.downloaded_file])
     THEN Finish([out EXCEPT !.displayed = TRUE])
     ELSE Finish(Exception)
  /\ UNCHANGED <<Stores, cmd, prev>>

---------------------------------------------------------------------------
(* Command 6: upload *)

\* reads the local filename and checks that the file exists
UploadFilename ==
  /\ pc = "DISPATCH"
  /\ LoopContinues(cmd)
  /\ cmd = 6
  /\ calls' = << >>
  /\ \E local_fname \in FileNames :
       IF ~FileExists(files, local_fname)
       THEN Finish([kind |-> "file_missing", name |-> local_fname])
       ELSE /\ pc' = "UPLOAD_USERID"
            /\ out' = NoOutput
            /\ local' = [handler |-> "upload", local_fname |-> local_fname]
  /\ UNCHANGED <<Stores, cmd, prev>>

\* reads the user id and checks that the user exists
UploadCheckUser ==
  /\ pc = "UPLOAD_USERID"
  /\ \E user_id \in IdInputs, res \in Results :
       /\ calls' = Append(calls, <<"db.retrieve_one_row", res>>)
       /\ IF res = "raise"
          THEN Finish(Exception)
          ELSE IF ~UserFound(retrieve_one_row(CheckUserQuery(users, user_id), res))
               THEN Finish([kind |-> "no_such_user"])
               ELSE /\ pc' = "UPLOAD_FILE"
                    /\ out' = NoOutput
                    /\ local' = [handler |-> "upload",
                                 local_fname |-> local.local_fname,
                                 user_id |-> user_id]
  /\ UNCHANGED <<Stores, cmd, prev>>

\* draws the key and uploads the file: awsutil.upload_file returns the key,
\* or nothing when the upload failed
UploadFile ==
  /\ pc = "UPLOAD_FILE"
  /\ uuidCount' = uuidCount + 1
  /\ \E res \in Results :
       LET key == <<Uuid4(uuidCount + 1), Suffix(local.local_fname)>>
           s3_key == IF res = "ok" THEN key ELSE Empty
       IN /\ res = "ok" => local.local_fname \in DOMAIN files
          /\ calls' = Append(calls, <<"s3.upload_file", res>>)
          /\ bucket' = IF res = "ok"
                       THEN Put(bucket, key, files[local.local_fname])
                       ELSE bucket
          /\ IF res = "raise"
             THEN Finish(Exception)
             ELSE IF ~UploadSucceeded(s3_key)
                  THEN Finish([kind |-> "upload_failed"])
                  ELSE /\ pc' = "UPLOAD_INSERT"
                       /\ out' = [kind |-> "uploaded", key |-> s3_key]
                       /\ local' = [handler |-> "upload",
                                    local_fname |-> local.local_fname,
                                    user_id |-> local.user_id,
                                    s3_key |-> s3_key,
                                    content |-> IF res = "ok"
                                                THEN files[local.local_fname]
                                                ELSE "none"]
  /\ UNCHANGED <<users, assets, files, lastInsertId, receipts, cmd, prev>>

\* INSERT INTO assets(userid, assetname, bucketkey)
UploadInsert ==
  /\ pc = "UPLOAD_INSERT"
  /\ \E res \in Results :
       LET id == NextAssetId(assets)
           row == [assetid |-> id,
                   userid |-> MySQLToNumber(local.user_id),
                   assetname |-> local.local_fname,
                   bucketkey |-> local.s3_key]
       IN /\ calls' = Append(calls, <<"db.perform_action", res>>)
          /\ assets' = IF res = "ok" THEN assets \cup {row} ELSE assets
          /\ lastInsertId' = IF res = "ok" THEN id ELSE lastInsertId
          /\ IF res = "raise"
             THEN Finish(Exception)
             ELSE IF ~Inserted(perform_action(res))
                  THEN Finish([kind |-> "insert_failed"])
                  ELSE /\ pc' = "UPLOAD_LAST_ID"
                       /\ out' = out
                       /\ local' = local
  /\ UNCHANGED <<users, bucket, files, uuidCount, receipts, cmd, prev>>

\* SELECT LAST_INSERT_ID() and print(..., last_id[0])
UploadLastId ==
  /\ pc = "UPLOAD_LAST_ID"
  /\ \E res \in Results :
       LET last_id == retrieve_one_row(LastInsertIdQuery(lastInsertId), res)
       IN /\ calls' = Append(calls, <<"db.retrieve_one_row", res>>)
          /\ IF res = "raise" \/ last_id = Empty
             THEN Finish(Exception) /\ receipts' = receipts
             ELSE /\ Finish([kind |-> "asset_recorded", id |-> last_id[1]])
                  /\ receipts' = Put(receipts, last_id[1],
                                     [name |-> local.local_fname,
                                      content |-> local.content])
  /\ UNCHANGED <<users, assets, bucket, files, lastInsertId, uuidCount, cmd, prev>>

---------------------------------------------------------------------------
(* Command 7: add user *)

\* reads email and names, draws the folder and inserts the user; the users
\* table refuses a second row with the same email
AddUserInsert ==
  /\ pc = "DISPATCH"
  /\ LoopContinues(cmd)
  /\ cmd = 7
  /\ uuidCount' = uuidCount + 1
  /\ \E email \in Emails, last_name \in LastNames, first_name \in FirstNames,
        res \in Results :
       LET id == NextUserId(users)
           folder == Uuid4(uuidCount + 1)
           row == [userid |-> id, email |-> email, lastname |-> last_name,
                   firstname |-> first_name, bucketfolder |-> folder]
       IN /\ res = "ok" => \A u \in users : u.email # email
          /\ calls' = << <<"db.perform_action", res>> >>
          /\ users' = IF res = "ok" THEN users \cup {row} ELSE users
          /\ lastInsertId' = IF res = "ok" THEN id ELSE lastInsertId
          /\ IF res = "raise"
             THEN Finish(Exception)
             ELSE IF ~Inserted(perform_action(res))
                  THEN Finish([kind |-> "insert_failed"])
                  ELSE /\ pc' = "ADD_USER_LAST_ID"
                       /\ out' = NoOutput
                       /\ local' = [handler |-> "add_user", email |-> email,
                                    folder |-> folder]
  /\ UNCHANGED <<assets, bucket, files, receipts, cmd, prev>>

\* SELECT LAST_INSERT_ID() and print(..., last_id[0])
AddUserLastId ==
  /\ pc = "ADD_USER_LAST_ID"
  /\ \E res \in Results :
       LET last_id == retrieve_one_row(LastInsertIdQuery(lastInsertId), res)
       IN /\ calls' = Append(calls, <<"db.retrieve_one_row", res>>)
          /\ IF res = "raise" \/ last_id = Empty
             THEN Finish(Exception)
             ELSE Finish([kind |-> "user_recorded", id |-> last_id[1],
                          email |-> local.email, folder |-> local.folder])
  /\ UNCHANGED <<Stores, cmd, prev>>

---------------------------------------------------------------------------
(* Environment *)

\* the process is killed (crash, Ctrl-C, power loss) wherever it is
Crash ==
  /\ pc \notin {"TERMINATED", "KILLED"}
  /\ pc' = "KILLED"
  /\ cmd' = 0
  /\ local' = NoLocals
  /\ out' = NoOutput
  /\ calls' = << >>
  /\ prev' = NoOutput
  /\ UNCHANGED Stores

\* the script is started again: a new connection, the same bucket and tables
Restart ==
  /\ pc \in {"TERMINATED", "KILLED"}
  /\ pc' = "AWAITING_COMMAND"
  /\ lastInsertId' = 0
  /\ cmd' = 0
  /\ local' = NoLocals
  /\ out' = NoOutput
  /\ calls' = << >>
  /\ prev' = NoOutput
  /\ UNCHANGED <<users, assets, bucket, files, uuidCount, receipts>>

\* between two commands the user writes or deletes a local file
LocalEdit ==
  /\ pc = "AWAITING_COMMAND"
  /\ \E f \in FileNames :
       \/ \E c \in Contents(f) : files' = Put(files, f, c)
       \/ files' = Remove(files, f)
  /\ UNCHANGED <<users, assets, bucket, lastInsertId, uuidCount, pc, cmd,
                 local, out, calls, prev, receipts>>

---------------------------------------------------------------------------

Next ==
  \/ Prompt
  \/ PromptNotNumeric
  \/ Exit
  \/ UnknownCommand
  \/ StatsBucket
  \/ StatsUsers
  \/ StatsAssets
  \/ Users
  \/ Assets
  \/ DownloadLookup
  \/ DownloadFile
  \/ DownloadDisplay
  \/ UploadFilename
  \/ UploadCheckUser
  \/ UploadFile
  \/ UploadInsert
  \/ UploadLastId
  \/ AddUserInsert
  \/ AddUserLastId
  \/ Crash
  \/ Restart
  \/ LocalEdit

Spec == Init /\ [][Next]_vars

---------------------------------------------------------------------------
(* Vocabulary of the properties *)

\* the positions inside a handler
HandlerPositions ==
  { "STATS_USERS", "STATS_ASSETS", "DOWNLOAD_FILE", "DOWNLOAD_DISPLAY",
    "UPLOAD_USERID", "UPLOAD_FILE", "UPLOAD_INSERT", "UPLOAD_LAST_ID",
    "ADD_USER_LAST_ID" }

\* a handler for one of the commands 1 to 7 is running or about to run
InHandler ==
  \/ pc = "DISPATCH" /\ cmd \in 1 .. 7
  \/ pc \in HandlerPositions

\* this step ends the running handler, by the script's own doing
HandlerEnds == InHandler /\ pc' \notin HandlerPositions /\ pc' # "KILLED"

\* the gateway call made by this step, and how it ended
LastCall == calls'[Len(calls')]

CallNames(cs) == { cs[i][1] : i \in 1 .. Len(cs) }

BlobKeys == DOMAIN bucket

OrphanedBlobs == BlobKeys \ { a.bucketkey : a \in assets }

---------------------------------------------------------------------------
(* C1: in every reachable state, crashes inside upload included, every     *)
(* Asset row's store key names a blob present in the bucket.               *)
C1_AssetRowHasBlob == \A a \in assets : a.bucketkey \in BlobKeys

\* a crash after an earlier upload left an orphaned blob beside a recorded one
C1_Witness ==
  /\ pc = "KILLED"
  /\ assets # {}
  /\ OrphanedBlobs # {}

---------------------------------------------------------------------------
(* C2 as stated: whenever the handler of a command 1 to 7 ends, whatever   *)
(* its outcome, the loop is back in AWAITING_COMMAND.                      *)
C2_AlwaysBackToPrompt ==
  [][HandlerEnds => pc' = "AWAITING_COMMAND"]_vars

(* C2 amended: whenever the handler of a command 1 to 7 returns (success,  *)
(* not-found, missing local file, failed upload, failed insert), the loop  *)
(* is back in AWAITING_COMMAND; when it ends by an exception, the process  *)
(* has terminated.                                                         *)
C2_BackToPromptUnlessException ==
  [][HandlerEnds =>
       /\ out'.kind # "exception" => pc' = "AWAITING_COMMAND"
       /\ out'.kind = "exception" => pc' = "TERMINATED"]_vars

\* an upload that failed in the object store has returned to the prompt
C2_Witness ==
  /\ pc = "AWAITING_COMMAND"
  /\ cmd = 6
  /\ out.kind = "upload_failed"

---------------------------------------------------------------------------
(* C3: a numeric command outside 0..7 prints the unknown-command warning,  *)
(* re-prompts, makes no gateway call and changes neither table, nor the    *)
(* bucket, nor the local files.                                            *)
C3_UnknownCommandNoEffect ==
  [][(pc = "DISPATCH" /\ cmd \notin 0 .. 7 /\ pc' # "KILLED") =>
       /\ pc' = "AWAITING_COMMAND"
       /\ out' = [kind |-> "unknown_command"]
       /\ calls' = << >>
       /\ UNCHANGED <<users, assets, bucket, files>>]_vars

\* command 8 was answered with the warning while the stores held data
C3_Witness ==
  /\ pc = "AWAITING_COMMAND"
  /\ cmd = 8
  /\ out.kind = "unknown_command"
  /\ users # {}
  /\ BlobKeys # {}

---------------------------------------------------------------------------
(* C4: once upload has reported asset id A, the row and blob of A keep the *)
(* uploaded name and content, and a download of A whose store call        *)
(* succeeds saves that content under the original filename.               *)
C4_ReceiptKept ==
  \A id \in DOMAIN receipts :
    \E a \in assets :
      /\ a.assetid = id
      /\ a.assetname = receipts[id].name
      /\ a.bucketkey \in BlobKeys
      /\ bucket[a.bucketkey] = receipts[id].content

C4_DownloadStep ==
  (/\ pc = "DOWNLOAD_FILE"
   /\ pc' # "KILLED"
   /\ MySQLToNumber(local.asset_id) \in DOMAIN receipts
   /\ LastCall = <<"s3.download_file", "ok">>) =>
    LET r == receipts[MySQLToNumber(local.asset_id)]
    IN /\ out'.kind = "downloaded"
       /\ out'.name = r.name
       /\ r.name \in DOMAIN files'
       /\ files'[r.name] = r.content

C4_LookupStep ==
  (/\ pc = "DISPATCH" /\ cmd \in {4, 5}
   /\ pc' = "DOWNLOAD_FILE"
   /\ MySQLToNumber(local'.asset_id) \in DOMAIN receipts) =>
    LET r == receipts[MySQLToNumber(local'.asset_id)]
    IN /\ local'.file_info[2] = r.name
       /\ local'.file_info[1] \in BlobKeys
       /\ bucket[local'.file_info[1]] = r.content

\* C4: the round trip, as the invariant on reported assets and the two
\* steps of a download of a reported asset
C4_RoundTrip ==
  /\ []C4_ReceiptKept
  /\ [][C4_LookupStep /\ C4_DownloadStep]_vars

\* a reported asset has been downloaded and the local file holds its content
C4_Witness ==
  /\ pc = "AWAITING_COMMAND"
  /\ cmd = 4
  /\ out.kind = "downloaded"
  /\ \E id \in DOMAIN receipts :
       /\ receipts[id].name = out.name
       /\ out.name \in DOMAIN files
       /\ files[out.name] = receipts[id].content

---------------------------------------------------------------------------
(* C5: upload of a local path that does not exist reports the missing      *)
(* file and ends with no gateway call and both tables and the bucket      *)
(* unchanged; the handler goes on only with a file that exists.           *)
C5_MissingFileNoCall ==
  [][(pc = "DISPATCH" /\ cmd = 6 /\ pc' # "KILLED") =>
       /\ calls' = << >>
       /\ UNCHANGED <<users, assets, bucket>>
       /\ \/ /\ pc' = "UPLOAD_USERID"
             /\ local'.local_fname \in DOMAIN files
          \/ /\ pc' = "AWAITING_COMMAND"
             /\ out'.kind = "file_missing"
             /\ out'.name \notin DOMAIN files]_vars

\* the missing file was reported while a user existed
C5_Witness ==
  /\ pc = "AWAITING_COMMAND"
  /\ out.kind = "file_missing"
  /\ calls = << >>
  /\ users # {}

---------------------------------------------------------------------------
(* C6: download goes on to the object store only with an identifier that   *)
(* has an Asset row; otherwise it reports "no such asset" having made the  *)
(* lookup only and written no file.  When the row exists and the blob     *)
(* download fails, the same message is reported, no file is written,      *)
(* nothing is displayed.  In both cases the loop continues.               *)
C6_LookupStep ==
  (pc = "DISPATCH" /\ cmd \in {4, 5} /\ pc' # "KILLED") =>
    /\ files' = files
    /\ CallNames(calls') = {"db.retrieve_one_row"}
    /\ \/ /\ pc' = "DOWNLOAD_FILE"
          /\ MySQLToNumber(local'.asset_id) \in AssetIds(assets)
       \/ /\ pc' = "AWAITING_COMMAND"
          /\ out' = [kind |-> "no_such_asset"]
       \/ /\ pc' = "TERMINATED"
          /\ LastCall[2] = "raise"

C6_BlobFailStep ==
  (/\ pc = "DOWNLOAD_FILE"
   /\ pc' # "KILLED"
   /\ LastCall = <<"s3.download_file", "fail">>) =>
    /\ pc' = "AWAITING_COMMAND"
    /\ out' = [kind |-> "no_such_asset"]
    /\ files' = files

\* C6: both ways download ends with "no such asset"
C6_NoSuchAsset == [][C6_LookupStep /\ C6_BlobFailStep]_vars

\* display mode: the row was found, the blob download failed
C6_Witness ==
  /\ pc = "AWAITING_COMMAND"
  /\ cmd = 5
  /\ out.kind = "no_such_asset"
  /\ Len(calls) = 2
  /\ calls[2] = <<"s3.download_file", "fail">>

---------------------------------------------------------------------------
(* C7: a list-users that follows a successful add-user shows the new user  *)
(* first; every other user listed has a smaller identifier and another    *)
(* folder identifier.                                                     *)
C7_NewUserListedFirst ==
  (/\ out.kind = "users"
   /\ prev.kind = "user_recorded"
   /\ calls = << <<"db.retrieve_all_rows", "ok">> >>) =>
    /\ Len(out.rows) >= 1
    /\ out.rows[1][1] = prev.id
    /\ out.rows[1][2] = prev.email
    /\ out.rows[1][5] = prev.folder
    /\ \A i \in 2 .. Len(out.rows) :
         /\ out.rows[i][1] < prev.id
         /\ out.rows[i][5] # prev.folder

\* the second user was added and the listing that followed shows both
C7_Witness ==
  /\ out.kind = "users"
  /\ prev.kind = "user_recorded"
  /\ calls = << <<"db.retrieve_all_rows", "ok">> >>
  /\ Len(out.rows) = 2

---------------------------------------------------------------------------
(* C8: the user count and the asset count stats prints are the numbers of  *)
(* entries list-users and list-assets print in the same state.            *)
C8_StatsCountsMatchLists ==
  out.kind = "stats" =>
    /\ out.users_cnt # Empty =>
         out.users_cnt[1] = Len(ListUsersQuery(users))
    /\ out.assets_cnt # Empty =>
         out.assets_cnt[1] = Len(ListAssetsQuery(assets))

\* stats printed both counts while the bucket held more objects than rows
C8_Witness ==
  /\ pc = "AWAITING_COMMAND"
  /\ out.kind = "stats"
  /\ out.users_cnt # Empty
  /\ out.assets_cnt # Empty
  /\ out.assets_cnt[1] >= 1
  /\ out.s3_assets > out.assets_cnt[1]

---------------------------------------------------------------------------
(* C9: when the store upload fails, upload reports it and ends with the    *)
(* database untouched: no insert, no last-insert lookup.  When the upload  *)
(* succeeded and the insert fails, the blob stays in the bucket.          *)
C9_UploadFailStep ==
  (/\ pc = "UPLOAD_FILE"
   /\ pc' # "KILLED"
   /\ LastCall = <<"s3.upload_file", "fail">>) =>
    /\ pc' = "AWAITING_COMMAND"
    /\ out' = [kind |-> "upload_failed"]
    /\ UNCHANGED <<users, assets, lastInsertId>>
    /\ "db.perform_action" \notin CallNames(calls')

C9_InsertFailStep ==
  (/\ pc = "UPLOAD_INSERT"
   /\ pc' # "KILLED"
   /\ LastCall = <<"db.perform_action", "fail">>) =>
    /\ pc' = "AWAITING_COMMAND"
    /\ out' = [kind |-> "insert_failed"]
    /\ bucket' = bucket
    /\ local.s3_key \in DOMAIN bucket'
    /\ local.s3_key \in OrphanedBlobs'

\* C9: both failures of upload after its preconditions passed
C9_UploadFailures == [][C9_UploadFailStep /\ C9_InsertFailStep]_vars

\* the insert failed and the blob just uploaded is in the bucket, orphaned
C9_Witness ==
  /\ pc = "AWAITING_COMMAND"
  /\ out.kind = "insert_failed"
  /\ cmd = 6
  /\ OrphanedBlobs # {}

---------------------------------------------------------------------------
(* C10: every Asset row's owner is an existing User row: upload goes on    *)
(* to the store only with an identifier the user lookup found, "No such   *)
(* user" ends it with no upload and no insert, both tables only grow, and *)
(* commands 1 to 5 change neither table nor the bucket.                   *)
C10_OwnerExists == \A a \in assets : a.userid \in UserIds(users)

C10_UserCheckStep ==
  (pc = "UPLOAD_USERID" /\ pc' # "KILLED") =>
    /\ UNCHANGED <<users, assets, bucket>>
    /\ CallNames(calls') = {"db.retrieve_one_row"}
    /\ pc' = "UPLOAD_FILE" => MySQLToNumber(local'.user_id) \in UserIds(users)
    /\ pc' = "AWAITING_COMMAND" => out' = [kind |-> "no_such_user"]

C10_TablesOnlyGrow == users \subseteq users' /\ assets \subseteq assets'

C10_ReadOnlyCommands ==
  (InHandler /\ cmd \in 1 .. 5) => UNCHANGED <<users, assets, bucket>>

\* C10: referential integrity and the steps that keep it
C10_ReferentialIntegrity ==
  /\ []C10_OwnerExists
  /\ [][C10_UserCheckStep /\ C10_TablesOnlyGrow /\ C10_ReadOnlyCommands]_vars

\* an asset is recorded and a later upload was refused for an unknown user
C10_Witness ==
  /\ pc = "AWAITING_COMMAND"
  /\ out.kind = "no_such_user"
  /\ assets # {}

====
